---- MODULE Spec2Model ----
(***************************************************************************)
(* A model of the nutrient-predictor backend: the lazily created predictor *)
(* (app/core/dependencies.py), model loading, feature mapping and          *)
(* prediction (app/models/predictor.py), the recommendation rules          *)
(* (app/models/recommendations.py) and the HTTP handlers (app/api).        *)
(*                                                                         *)
(* Numbers.  Probabilities are integers in units of 1/Scale; confidence    *)
(* bounds are integers in units of 1/(100*Scale), so that the literals     *)
(* 0.15, 0.4 and 0.05 of the code are exact.  Feature values and scores    *)
(* that the code computes by division are exact fractions <<num, den>>.    *)
(* Attribution impacts are in units of 1/3 (the mean of three vectors).    *)
(***************************************************************************)
EXTENDS Integers, Sequences, FiniteSets, TLC

\* ------------------------------------------------------------------ bounds
NumThreads == 2        \* requests in flight at once
Scale == 20            \* resolution of the probability grid: p stands for p/Scale
MaxSchemaLen == 2      \* longest enumerated feature-name schema (feature mapping)
MaxFeatures == 6       \* longest schema used for attribution ranking

None == 0              \* Python's None, for the two references of get_predictor

Threads == 1..NumThreads

\* ------------------------------------------------------------ small helpers
Abs(x) == IF x < 0 THEN -x ELSE x
Max2(a, b) == IF a >= b THEN a ELSE b
Min2(a, b) == IF a <= b THEN a ELSE b

RECURSIVE SumSeq(_)
SumSeq(s) == IF s = <<>> THEN 0 ELSE Head(s) + SumSeq(Tail(s))

Range(s) == {s[i] : i \in DOMAIN s}

\* ---------------------------------------------------------------- nutrients
\* load_models' list and the key order of predict's nutrient_mapping
Nutrients == <<"b12_deficient", "iron_deficient", "diabetes_risk">>
NutrientSet == Range(Nutrients)

\* ------------------------------------------------------------ NutrientPredictor
\* NutrientPredictor.__init__: the fields the operations read
NewPredictor ==
  [models_loaded |-> FALSE,
   models |-> {},
   calibrated_models |-> <<>>,
   explainers |-> {},
   scalers |-> <<>>,
   feature_names |-> <<>>]

\* The first nutrient, in load order, whose base model file is missing (4: none)
FirstMissing(d) ==
  IF \E i \in 1..3 : Nutrients[i] \notin d.modelFiles
  THEN CHOOSE i \in 1..3 : /\ Nutrients[i] \notin d.modelFiles
                           /\ \A j \in 1..(i-1) : Nutrients[j] \in d.modelFiles
  ELSE 4

\* load_models, lines 35-37: the three dictionaries are emptied first
ResetDicts(self) ==
  [self EXCEPT !.models = {}, !.calibrated_models = <<>>, !.scalers = <<>>]

\* load_models, lines 39-80, on the emptied dictionaries, against the files of
\* disk d.  A missing base model, a missing shared scaler when it is needed and
\* a missing feature-name file raise inside the try block: what was stored so
\* far stays, models_loaded becomes False.
FillDicts(self, d) ==
  LET k == FirstMissing(d)
      ms == {Nutrients[i] : i \in 1..(k-1)}
      cal == [n \in ms |-> IF n \in d.calibratedFiles THEN "calibrated" ELSE "base"]
      ded == [n \in (ms \cap d.scalerFiles) |-> "dedicated"]
      failed == [self EXCEPT !.models = ms, !.calibrated_models = cal,
                             !.scalers = ded, !.models_loaded = FALSE]
  IN IF k <= 3 THEN failed
     ELSE IF DOMAIN ded = {} /\ ~d.sharedScaler THEN failed
     ELSE LET sc == IF DOMAIN ded = {} THEN [n \in NutrientSet |-> "shared"] ELSE ded
          IN IF ~d.featureFile THEN [failed EXCEPT !.scalers = sc]
             ELSE [models_loaded |-> TRUE,
                   models |-> ms,
                   calibrated_models |-> cal,
                   explainers |-> NutrientSet,
                   scalers |-> sc,
                   feature_names |-> d.featureNames]

\* load_models as one call
LoadModels(self, d) == FillDicts(ResetDicts(self), d)

\* ------------------------------------------------------------ feature mapping
\* An exact fraction num/den; whole numbers have den = 1
Frac(n, d) == <<n, d>>
Whole(n) == <<n, 1>>
NoValue == <<>>          \* a cell that holds nothing

\* dict.get(key, default)
Get(map, key, default) == IF key \in DOMAIN map THEN map[key] ELSE default

race_mapping ==
  ("Mexican American" :> 1) @@ ("Other Hispanic" :> 2) @@ ("Non-Hispanic White" :> 3)
  @@ ("Non-Hispanic Black" :> 4) @@ ("Other Race" :> 6)

education_mapping ==
  ("Less than 9th grade" :> 1) @@ ("9-11th grade" :> 2) @@ ("High school graduate" :> 3)
  @@ ("Some college" :> 4) @@ ("College graduate or above" :> 5)

marital_mapping ==
  ("Married" :> 1) @@ ("Widowed" :> 2) @@ ("Divorced" :> 3) @@ ("Separated" :> 4)
  @@ ("Never married" :> 5) @@ ("Living with partner" :> 6)

\* The table of _get_feature_description: the twenty codes the service names
descriptions ==
  ("RIDAGEYR" :> "Age (years)") @@ ("RIAGENDR" :> "Gender")
  @@ ("RIDRETH3" :> "Race/Ethnicity") @@ ("BMXWT" :> "Weight (kg)")
  @@ ("BMXHT" :> "Height (cm)") @@ ("BMXBMI" :> "Body Mass Index")
  @@ ("SDDSRVYR" :> "Survey Year") @@ ("RIDSTATR" :> "Interview/Examination Status")
  @@ ("RIDRETH1" :> "Race/Ethnicity (Detailed)") @@ ("RIDEXMON" :> "Examination Month")
  @@ ("DMQMILIZ" :> "Military Service") @@ ("DMDBORN4" :> "Country of Birth")
  @@ ("DMDCITZN" :> "Citizenship Status") @@ ("DMDEDUC2" :> "Education Level")
  @@ ("DMDMARTL" :> "Marital Status") @@ ("SIALANG" :> "Interview Language")
  @@ ("SIAPROXY" :> "Proxy Used in Interview") @@ ("SIAINTRP" :> "Interpreter Used")
  @@ ("FIALANG" :> "Family Interview Language") @@ ("FIAPROXY" :> "Family Proxy Used")

\* weight / (height / 100) ** 2, as the exact fraction 10000 * weight / height^2
Bmi(profile) == Frac(10000 * profile.weight, profile.height * profile.height)

\* The chain with RIDRETH1's fallback code 3 also given to an unlisted race
FeatureValue_RaceDefault3(feat, profile, val) ==
  CASE feat = "RIDAGEYR" -> Whole(profile.age)
    [] feat = "RIAGENDR" -> Whole(IF profile.gender = "Male" THEN 1 ELSE 2)
    [] feat = "RIDRETH3" -> Whole(Get(race_mapping, profile.race, 3))
    [] feat = "BMXWT"    -> Whole(profile.weight)
    [] feat = "BMXHT"    -> Whole(profile.height)
    [] feat = "BMXBMI"   -> Bmi(profile)
    [] feat = "DMDBORN4" -> Whole(IF profile.country_of_birth = "US" THEN 1 ELSE 2)
    [] feat = "DMDEDUC2" -> Whole(Get(education_mapping, profile.education, 3))
    [] feat = "DMDMARTL" -> Whole(Get(marital_mapping, profile.marital_status, 5))
    [] feat = "SDDSRVYR" -> Whole(8)
    [] feat = "RIDSTATR" -> Whole(2)
    [] feat = "RIDRETH1" -> Get(val, "RIDRETH3", Whole(3))
    [] feat = "RIDEXMON" -> Whole(6)
    [] feat \in {"DMQMILIZ", "DMDCITZN"} -> Whole(1)
    [] feat \in {"SIALANG", "FIALANG"} -> Whole(1)
    [] feat \in {"SIAPROXY", "SIAINTRP", "FIAPROXY"} -> Whole(2)
    [] OTHER -> Whole(0)

\* One pass of create_feature_vector's if/elif chain: the value stored for feat,
\* given the entries feature_dict holds so far (val: name -> value)
FeatureValue(feat, profile, val) ==
  CASE feat = "RIDAGEYR" -> Whole(profile.age)
    [] feat = "RIAGENDR" -> Whole(IF profile.gender = "Male" THEN 1 ELSE 2)
    [] feat = "RIDRETH3" -> Whole(Get(race_mapping, profile.race, 6))
    [] feat = "BMXWT"    -> Whole(profile.weight)
    [] feat = "BMXHT"    -> Whole(profile.height)
    [] feat = "BMXBMI"   -> Bmi(profile)
    [] feat = "DMDBORN4" -> Whole(IF profile.country_of_birth = "US" THEN 1 ELSE 2)
    [] feat = "DMDEDUC2" -> Whole(Get(education_mapping, profile.education, 3))
    [] feat = "DMDMARTL" -> Whole(Get(marital_mapping, profile.marital_status, 5))
    [] feat = "SDDSRVYR" -> Whole(8)
    [] feat = "RIDSTATR" -> Whole(2)
    [] feat = "RIDRETH1" -> Get(val, "RIDRETH3", Whole(3))
    [] feat = "RIDEXMON" -> Whole(6)
    [] feat \in {"DMQMILIZ", "DMDCITZN"} -> Whole(1)
    [] feat \in {"SIALANG", "FIALANG"} -> Whole(1)
    [] feat \in {"SIAPROXY", "SIAINTRP", "FIAPROXY"} -> Whole(2)
    [] OTHER -> Whole(0)

\* feature_dict[feat] = v on a Python dict: keys in insertion order, a key set
\* again keeps its place
DictPut(fd, k, v) ==
  [keys |-> IF k \in Range(fd.keys) THEN fd.keys ELSE Append(fd.keys, k),
   val |-> [x \in (DOMAIN fd.val) \cup {k} |-> IF x = k THEN v ELSE fd.val[x]]]

EmptyDict == [keys |-> <<>>, val |-> <<>>]

\* The loop without its final `else`: a name no rule matches gets no entry
RECURSIVE FeatureLoop_NoDefault(_, _, _)
FeatureLoop_NoDefault(names, profile, fd) ==
  IF names = <<>> THEN fd
  ELSE FeatureLoop_NoDefault(Tail(names), profile,
         IF Head(names) \in DOMAIN descriptions
         THEN DictPut(fd, Head(names), FeatureValue(Head(names), profile, fd.val))
         ELSE fd)

\* The loop of create_feature_vector over self.feature_names, in schema order
RECURSIVE FeatureLoop(_, _, _)
FeatureLoop(names, profile, fd) ==
  IF names = <<>> THEN fd
  ELSE FeatureLoop(Tail(names), profile,
                   DictPut(fd, Head(names), FeatureValue(Head(names), profile, fd.val)))

\* df[names]: the columns named, in that order
SelectColumns(fd, names) ==
  [columns |-> names,
   row |-> [i \in 1..Len(names) |->
              IF names[i] \in DOMAIN fd.val THEN fd.val[names[i]] ELSE NoValue]]

\* create_feature_vector: pd.DataFrame([feature_dict]) then df[self.feature_names]
CreateFeatureVector(feature_names, profile) ==
  SelectColumns(FeatureLoop(feature_names, profile, EmptyDict), feature_names)

\* _get_feature_description
GetFeatureDescription(feature_code) == Get(descriptions, feature_code, feature_code)

\* get_feature_info
GetFeatureInfo(self) ==
  [features |-> [i \in 1..Len(self.feature_names) |->
                   [code |-> self.feature_names[i],
                    description |-> GetFeatureDescription(self.feature_names[i])]],
   total_features |-> Len(self.feature_names)]

\* ---------------------------------------------------------------- prediction
\* A probability p/Scale as an integer in units of 1/(100*Scale); One is 1.0
One == 100 * Scale
Proba(p) == 100 * p

LowBelow == 15         \* proba < 0.15, in hundredths
ModerateBelow == 40    \* proba < 0.4, in hundredths
MinUncertainty == 5    \* + 0.05, in hundredths
TopN == 5              \* top_features[:5]

\* The thresholds taken inclusively: `<=` where predict has `<`
RiskCategory_Inclusive(proba) ==
  IF proba <= LowBelow * Scale THEN "Low"
  ELSE IF proba <= ModerateBelow * Scale THEN "Moderate"
  ELSE "High"

\* predict, lines 181-186
RiskCategory(proba) ==
  IF proba < LowBelow * Scale THEN "Low"
  ELSE IF proba < ModerateBelow * Scale THEN "Moderate"
  ELSE "High"

\* The gap taken with its sign: abs() left out
Uncertainty_Signed(proba, base_proba) == (proba - base_proba) + MinUncertainty * Scale

\* predict, line 191: abs(proba - base_proba) + 0.05
Uncertainty(proba, base_proba) == Abs(proba - base_proba) + MinUncertainty * Scale

\* predict, lines 194-195
ConfLower(proba, uncertainty) == Max2(0, proba - uncertainty)
ConfUpper(proba, uncertainty) == Min2(One, proba + uncertainty)

\* predict, lines 198-206: the display name and the note of a nutrient key
DisplayName(nutrient_key) ==
  IF nutrient_key = "iron_deficient" THEN "Anemia Risk"
  ELSE IF nutrient_key = "diabetes_risk" THEN "Diabetes Risk (Limited)"
  ELSE "Vitamin B12"

Note(nutrient_key) ==
  IF nutrient_key = "iron_deficient" THEN "hemoglobin-based (WHO); confirm with lab Hb test"
  ELSE IF nutrient_key = "diabetes_risk" THEN "demographic only; consult for HbA1c, fasting glucose"
  ELSE "does not diagnose B12 deficiency; request serum B12"

\* The calibrated model's probability: the base model's when no calibrated
\* model file was found (load_models, line 50)
CalibratedProba(self, nutrient_key, in) ==
  IF self.calibrated_models[nutrient_key] = "base"
  THEN Proba(in.base_proba[nutrient_key])
  ELSE Proba(in.proba[nutrient_key])

\* predict, lines 208-216: the NutrientPrediction of one loop iteration
MakePrediction(self, nutrient_key, in) ==
  LET proba == CalibratedProba(self, nutrient_key, in)
      base_proba == Proba(in.base_proba[nutrient_key])
      uncertainty == Uncertainty(proba, base_proba)
  IN [nutrient |-> DisplayName(nutrient_key),
      risk_score |-> proba,
      risk_category |-> RiskCategory(proba),
      confidence |-> proba,
      confidence_lower |-> ConfLower(proba, uncertainty),
      confidence_upper |-> ConfUpper(proba, uncertainty),
      note |-> Note(nutrient_key)]

\* Field(..., ge=0, le=1) of NutrientPrediction
In01(x) == 0 <= x /\ x <= One
ValidPrediction(pred) ==
  /\ In01(pred.risk_score) /\ In01(pred.confidence)
  /\ In01(pred.confidence_lower) /\ In01(pred.confidence_upper)
  /\ pred.risk_category \in {"Low", "Moderate", "High"}

\* The dictionary lookups of one loop iteration (lines 167-172) all succeed
HasArtifacts(self, nutrient_key) ==
  /\ nutrient_key \in self.models
  /\ nutrient_key \in self.explainers
  /\ nutrient_key \in DOMAIN self.calibrated_models
  /\ nutrient_key \in DOMAIN self.scalers

\* The exception the loop of predict ends with, "" when it ends normally: the
\* first iteration, in key order, that misses an artifact (KeyError) or builds
\* a NutrientPrediction the schema rejects (ValidationError)
RECURSIVE LoopRaises(_, _, _)
LoopRaises(self, in, i) ==
  IF i > Len(Nutrients) THEN ""
  ELSE IF ~HasArtifacts(self, Nutrients[i]) THEN "KeyError"
  ELSE IF ~ValidPrediction(MakePrediction(self, Nutrients[i], in)) THEN "ValidationError"
  ELSE LoopRaises(self, in, i + 1)

\* The sort keyed by the impact itself: abs() left out
InsertByImpact_Signed(x, s) ==
  LET k == Cardinality({j \in 1..Len(s) : s[j].impact > x.impact})
  IN SubSeq(s, 1, k) \o <<x>> \o SubSeq(s, k + 1, Len(s))

\* sort(key=abs(impact), reverse=True) is stable: x, which stood before the
\* entries of the sorted s, goes before the first entry that is not larger
InsertByImpact(x, s) ==
  LET k == Cardinality({j \in 1..Len(s) : Abs(s[j].impact) > Abs(x.impact)})
  IN SubSeq(s, 1, k) \o <<x>> \o SubSeq(s, k + 1, Len(s))

RECURSIVE SortByImpact(_)
SortByImpact(s) ==
  IF s = <<>> THEN <<>> ELSE InsertByImpact(Head(s), SortByImpact(Tail(s)))

\* predict, line 225, np.mean(all_shap_values, axis=0): entry i in units of 1/3
AvgShap(in, i) == SumSeq([k \in 1..Len(Nutrients) |-> in.shap_values[Nutrients[k]][i]])

\* predict, lines 228-235
Contributions(self, features, in) ==
  [i \in 1..Len(self.feature_names) |->
     [feature |-> self.feature_names[i],
      feature_name |-> GetFeatureDescription(self.feature_names[i]),
      value |-> features.row[i],
      impact |-> AvgShap(in, i)]]

\* predict, lines 238-240
TopFeatures(self, features, in) ==
  LET sorted == SortByImpact(Contributions(self, features, in))
  IN SubSeq(sorted, 1, Min2(TopN, Len(sorted)))

NoFrame == [columns |-> <<>>, row |-> <<>>]

\* NutrientPredictor.predict: what it raises, or the pair it returns, and the
\* feature vector it built
Predict(self, in) ==
  IF ~self.models_loaded
  THEN [raised |-> "RuntimeError", features |-> NoFrame,
        predictions |-> <<>>, top_features |-> <<>>]
  ELSE LET features == CreateFeatureVector(self.feature_names, in.profile)
           exc == LoopRaises(self, in, 1)
       IN IF exc # ""
          THEN [raised |-> exc, features |-> features,
                predictions |-> <<>>, top_features |-> <<>>]
          ELSE [raised |-> "", features |-> features,
                predictions |-> [i \in 1..Len(Nutrients) |->
                                   MakePrediction(self, Nutrients[i], in)],
                top_features |-> TopFeatures(self, features, in)]

\* ------------------------------------------------------------ recommendations
\* 'B12' in pred.nutrient and the like: the rule words each nutrient name contains
NameWords ==
  ("Vitamin B12" :> {"B12"}) @@ ("Anemia Risk" :> {"Anemia"})
  @@ ("Diabetes Risk (Limited)" :> {}) @@ ("Iron" :> {"Iron"})
  @@ ("Vitamin D" :> {"Vitamin D"})

Contains(word, nutrient) == word \in Get(NameWords, nutrient, {})

Rec(category, priority, recommendation, rationale) ==
  [category |-> category, priority |-> priority,
   recommendation |-> recommendation, rationale |-> rationale]

\* _get_b12_recommendations
GetB12Recommendations(pred, priority) ==
  (IF pred.risk_category = "High"
   THEN <<Rec("Medical", priority, "discuss B12 testing and supplementation",
              "high predicted risk of B12 deficiency")>>
   ELSE <<>>)
  \o <<Rec("Dietary", priority, "increase B12-rich foods",
           "B12 comes from animal products and fortified foods")>>

\* The vitamin C entry given the prediction's priority instead of 'Medium'
GetIronRecommendations_VitCPriority(pred, profile, priority) ==
  <<Rec("Dietary", priority, "increase iron-rich foods", "predicted risk of anemia")>>
  \o (IF profile.gender = "Female"
      THEN <<Rec("Medical", priority, "discuss iron supplementation",
                 "additional iron needs")>>
      ELSE <<>>)
  \o <<Rec("Dietary", priority, "pair iron with vitamin C",
           "vitamin C improves iron absorption")>>

\* _get_iron_recommendations
GetIronRecommendations(pred, profile, priority) ==
  <<Rec("Dietary", priority, "increase iron-rich foods",
        IF pred.risk_category = "High" THEN "High predicted risk of anemia"
        ELSE IF pred.risk_category = "Moderate" THEN "Moderate predicted risk of anemia"
        ELSE "Low predicted risk of anemia")>>
  \o (IF profile.gender = "Female"
      THEN <<Rec("Medical", priority, "discuss iron supplementation",
                 "additional iron needs")>>
      ELSE <<>>)
  \o <<Rec("Dietary", "Medium", "pair iron with vitamin C",
           "vitamin C improves iron absorption")>>

\* _get_vitd_recommendations
GetVitdRecommendations(pred, priority) ==
  <<Rec("Lifestyle", priority, "sunlight and vitamin D supplementation",
        "predicted risk of vitamin D deficiency"),
    Rec("Dietary", priority, "include vitamin D-rich foods",
        "few foods contain vitamin D")>>

\* bmi < x / 10 for the fraction bmi
BmiBelow(bmi, tenths) == 10 * bmi[1] < tenths * bmi[2]
BmiAbove(bmi, tenths) == 10 * bmi[1] > tenths * bmi[2]

\* _get_lifestyle_recommendations
GetLifestyleRecommendations(profile) ==
  LET bmi == Bmi(profile)
  IN (IF BmiBelow(bmi, 185)
      THEN <<Rec("Lifestyle", "Medium", "weight-gain plan with a dietitian",
                 "BMI below the healthy range")>>
      ELSE IF BmiAbove(bmi, 250)
      THEN <<Rec("Lifestyle", "Medium", "physical activity and balanced diet",
                 IF BmiBelow(bmi, 300) THEN "BMI slightly above the healthy range"
                 ELSE "BMI above the healthy range")>>
      ELSE <<>>)
     \o (IF profile.age > 65
         THEN <<Rec("Medical", "Medium", "routine nutrient screening",
                    "absorption changes with age")>>
         ELSE <<>>)
     \o <<Rec("Lifestyle", "Low", "maintain a balanced diet",
              "dietary diversity")>>

\* The test of risk_category left out: a Low prediction takes the else priority
NutrientRecommendations_AnyCategory(pred, profile) ==
  LET priority == IF pred.risk_category = "High" THEN "High" ELSE "Medium"
  IN IF Contains("B12", pred.nutrient)
     THEN GetB12Recommendations(pred, priority)
     ELSE IF Contains("Iron", pred.nutrient) \/ Contains("Anemia", pred.nutrient)
     THEN GetIronRecommendations(pred, profile, priority)
     ELSE IF Contains("Vitamin D", pred.nutrient)
     THEN GetVitdRecommendations(pred, priority)
     ELSE <<>>

\* generate_recommendations, lines 20-28: what one prediction adds
NutrientRecommendations(pred, profile) ==
  IF pred.risk_category \in {"High", "Moderate"}
  THEN LET priority == IF pred.risk_category = "High" THEN "High" ELSE "Medium"
       IN IF Contains("B12", pred.nutrient)
          THEN GetB12Recommendations(pred, priority)
          ELSE IF Contains("Iron", pred.nutrient) \/ Contains("Anemia", pred.nutrient)
          THEN GetIronRecommendations(pred, profile, priority)
          ELSE IF Contains("Vitamin D", pred.nutrient)
          THEN GetVitdRecommendations(pred, priority)
          ELSE <<>>
  ELSE <<>>

RECURSIVE NutrientLoop(_, _)
NutrientLoop(predictions, profile) ==
  IF predictions = <<>> THEN <<>>
  ELSE NutrientRecommendations(Head(predictions), profile)
       \o NutrientLoop(Tail(predictions), profile)

\* The lifestyle group put first
GenerateRecommendations_LifestyleFirst(predictions, profile) ==
  GetLifestyleRecommendations(profile) \o NutrientLoop(predictions, profile)

\* RecommendationEngine.generate_recommendations
GenerateRecommendations(predictions, profile) ==
  NutrientLoop(predictions, profile) \o GetLifestyleRecommendations(profile)

\* ------------------------------------------------------------------ handlers
\* The sum of the risk scores taken for their mean
OverallHealthScore_Sum(predictions) ==
  LET risk_scores == [i \in 1..Len(predictions) |-> predictions[i].risk_score]
  IN Frac(Max2(0, One - SumSeq(risk_scores)), One)

\* predict_deficiencies, lines 36-38: max(0, 1 - sum(risk_scores) / len(risk_scores))
OverallHealthScore(predictions) ==
  LET risk_scores == [i \in 1..Len(predictions) |-> predictions[i].risk_score]
      n == Len(risk_scores)
  IN Frac(Max2(0, n * One - SumSeq(risk_scores)), n * One)

\* Field(..., ge=0, le=1) of PredictionResponse.overall_health_score
ValidScore(score) == 0 <= score[1] /\ score[1] <= score[2]

Answer(endpoint, status, detail) ==
  [endpoint |-> endpoint, status |-> status, detail |-> detail,
   health_models_loaded |-> FALSE, predict_called |-> FALSE,
   predictions |-> <<>>, top_features |-> <<>>, recommendations |-> <<>>,
   overall_health_score |-> Frac(0, 1),
   feature_info |-> [features |-> <<>>, total_features |-> -1]]

NoResponse == Answer("", 0, "")

\* The guard left out: the handlers go on whatever the flag says
Unavailable_Unchecked(self) == FALSE

\* The guard of both /api handlers: `if not predictor.models_loaded`
Unavailable(self) == ~self.models_loaded

\* The except clause answering with the status of the guard
PredictDeficiencies_ErrorsAs503(self, in) ==
  IF Unavailable(self)
  THEN Answer("predict", 503, "Models not loaded")
  ELSE LET r == Predict(self, in)
           called == [Answer("predict", 503, r.raised) EXCEPT !.predict_called = TRUE]
       IN IF r.raised # "" THEN called
          ELSE IF Len(r.predictions) = 0
          THEN [called EXCEPT !.detail = "ZeroDivisionError"]
          ELSE IF ~ValidScore(OverallHealthScore(r.predictions))
          THEN [called EXCEPT !.detail = "ValidationError"]
          ELSE [called EXCEPT !.status = 200, !.detail = "",
                  !.predictions = r.predictions,
                  !.top_features = r.top_features,
                  !.recommendations = GenerateRecommendations(r.predictions, in.profile),
                  !.overall_health_score = OverallHealthScore(r.predictions)]

\* POST /api/predict on predictor self with the request and model outputs in
PredictDeficiencies(self, in) ==
  IF Unavailable(self)
  THEN Answer("predict", 503, "Models not loaded")
  ELSE LET r == Predict(self, in)
           called == [Answer("predict", 500, r.raised) EXCEPT !.predict_called = TRUE]
       IN IF r.raised # "" THEN called
          ELSE IF Len(r.predictions) = 0
          THEN [called EXCEPT !.detail = "ZeroDivisionError"]
          ELSE IF ~ValidScore(OverallHealthScore(r.predictions))
          THEN [called EXCEPT !.detail = "ValidationError"]
          ELSE [called EXCEPT !.status = 200, !.detail = "",
                  !.predictions = r.predictions,
                  !.top_features = r.top_features,
                  !.recommendations = GenerateRecommendations(r.predictions, in.profile),
                  !.overall_health_score = OverallHealthScore(r.predictions)]

\* GET /api/features
GetFeatures(self) ==
  IF Unavailable(self)
  THEN Answer("features", 503, "Models not loaded")
  ELSE [Answer("features", 200, "") EXCEPT !.feature_info = GetFeatureInfo(self)]

\* GET /health
HealthCheck(self) ==
  [Answer("health", 200, "healthy") EXCEPT !.health_models_loaded = self.models_loaded]

\* What an answer tells its client about the predictor
ShowsUnloaded(resp) ==
  \/ resp.status = 503
  \/ resp.endpoint = "health" /\ ~resp.health_models_loaded
ShowsLoaded(resp) ==
  \/ resp.endpoint \in {"predict", "features"} /\ resp.status \in {200, 500}
  \/ resp.endpoint = "health" /\ resp.health_models_loaded

\* -------------------------------------------------------------------- state
VARIABLES
  disk,                \* the artifacts under saved_models/
  instances,           \* the NutrientPredictor objects constructed so far, by id
  predictor_instance,  \* the global _predictor_instance: None or an id
  lru_cache,           \* what lru_cache holds for get_predictor(): None or an id
  pc,                  \* where each request stands
  predictor,           \* the instance each request holds (self, then the dependency)
  features,            \* the feature vector predict built for the latest answer
  response,            \* the latest answer, until the next request arrives
  request,             \* the profile and the model outputs of that answer
  served,              \* the instance that answer came from, and its flag then
  loadCalls,           \* how many times load_models was entered
  returned,            \* the ids get_predictor has returned
  sawUnloaded,         \* some request has observed models_loaded = False
  lateLoaded           \* a request observed True after one had observed False

vars == <<disk, predictor_instance, lru_cache, instances, pc, predictor,
          features, response, request, served, loadCalls, returned, sawUnloaded,
          lateLoaded>>

\* ------------------------------------------------------------------- inputs
\* The schema the service is run with in the request-level specifications
CoreSchema == <<"RIDAGEYR", "RIAGENDR", "BMXBMI">>

\* Every code create_feature_vector knows, and one it does not
AllCodes ==
  <<"RIDRETH1", "RIDRETH3", "RIDAGEYR", "RIAGENDR", "BMXBMI", "BMXWT", "BMXHT",
    "DMDBORN4", "DMDEDUC2", "DMDMARTL", "SDDSRVYR", "RIDSTATR", "RIDEXMON",
    "DMQMILIZ", "DMDCITZN", "SIALANG", "FIALANG", "SIAPROXY", "SIAINTRP",
    "FIAPROXY", "INDFMPIR">>

Profile(age, gender, race, weight, height, education, marital_status, country) ==
  [age |-> age, gender |-> gender, race |-> race, weight |-> weight,
   height |-> height, education |-> education,
   marital_status |-> marital_status, country_of_birth |-> country]

\* The example of UserProfile.Config
ExampleProfile ==
  Profile(35, "Female", "Non-Hispanic White", 65, 165,
          "College graduate or above", "Married", "US")

\* Profiles the request schema accepts
ValidProfiles ==
  {ExampleProfile,
   Profile(70, "Male", "Mexican American", 95, 170, "Some college", "Widowed", "Other"),
   Profile(18, "Female", "Other Hispanic", 45, 170, "Less than 9th grade",
           "Never married", "US"),
   Profile(66, "Male", "Non-Hispanic Black", 80, 175, "9-11th grade", "Divorced", "US"),
   Profile(40, "Female", "Other Race", 110, 160, "High school graduate",
           "Living with partner", "Other"),
   Profile(65, "Male", "Non-Hispanic White", 60, 180, "Some college", "Separated", "US"),
   Profile(30, "Male", "Other Race", 100, 200, "Some college", "Married", "US"),
   Profile(90, "Female", "Non-Hispanic Black", 74, 200, "9-11th grade", "Widowed", "Other")}

ZeroVector(n) == [i \in 1..n |-> 0]

Inputs(profile, proba, base_proba, shap_values) ==
  [profile |-> profile, proba |-> proba, base_proba |-> base_proba,
   shap_values |-> shap_values]

\* The request of the service-level specification
SvcInputs(self) ==
  {Inputs(ExampleProfile, [n \in NutrientSet |-> Scale \div 2],
          [n \in NutrientSet |-> Scale \div 4],
          [n \in NutrientSet |-> ZeroVector(Len(self.feature_names))])}

Disk(modelFiles, calibratedFiles, scalerFiles, sharedScaler, featureFile, featureNames) ==
  [modelFiles |-> modelFiles, calibratedFiles |-> calibratedFiles,
   scalerFiles |-> scalerFiles, sharedScaler |-> sharedScaler,
   featureFile |-> featureFile, featureNames |-> featureNames]

\* Disks of the service-level specification: every artifact present; no
\* dedicated scaler but the shared one; a dedicated scaler for one nutrient
\* only; no scaler at all; a base model missing
SvcDisks ==
  {Disk(NutrientSet, NutrientSet, NutrientSet, TRUE, TRUE, CoreSchema),
   Disk(NutrientSet, {}, {}, TRUE, TRUE, CoreSchema),
   Disk(NutrientSet, NutrientSet, {"b12_deficient"}, TRUE, TRUE, CoreSchema),
   Disk(NutrientSet, NutrientSet, {}, FALSE, TRUE, CoreSchema),
   Disk(NutrientSet \ {"iron_deficient"}, NutrientSet, NutrientSet, TRUE, TRUE, CoreSchema)}

NoRequest ==
  Inputs(Profile(0, "", "", 0, 0, "", "", ""), [n \in NutrientSet |-> 0],
         [n \in NutrientSet |-> 0], [n \in NutrientSet |-> <<>>])

NotServed == [instance |-> None, models_loaded |-> FALSE]

\* --------------------------------------------------------------------- Init
InitProcess ==
  /\ instances = <<>>
  /\ predictor_instance = None
  /\ lru_cache = None
  /\ pc = [t \in Threads |-> "idle"]
  /\ predictor = [t \in Threads |-> None]
  /\ features = NoFrame
  /\ response = NoResponse
  /\ request = NoRequest
  /\ served = NotServed
  /\ loadCalls = 0
  /\ returned = {}
  /\ sawUnloaded = FALSE
  /\ lateLoaded = FALSE

Init == disk \in SvcDisks /\ InitProcess

\* ------------------------------------------------------------ get_predictor
\* A request arrives and its dependency is resolved: lru_cache answers a call
\* it has a result for, and calls get_predictor's body otherwise
Request(t) ==
  /\ pc[t] = "idle"
  /\ response' = NoResponse
  /\ request' = NoRequest
  /\ features' = NoFrame
  /\ served' = NotServed
  /\ IF lru_cache # None
     THEN /\ pc' = [pc EXCEPT ![t] = "handler"]
          /\ predictor' = [predictor EXCEPT ![t] = lru_cache]
          /\ returned' = returned \cup {lru_cache}
     ELSE /\ pc' = [pc EXCEPT ![t] = "call"]
          /\ predictor' = [predictor EXCEPT ![t] = None]
          /\ UNCHANGED returned
  /\ UNCHANGED <<disk, instances, predictor_instance, lru_cache, loadCalls,
                 sawUnloaded, lateLoaded>>

\* get_predictor, line 13: `if _predictor_instance is None`
TestNone(t) ==
  /\ pc[t] = "call"
  /\ pc' = [pc EXCEPT ![t] = IF predictor_instance = None THEN "construct" ELSE "return"]
  /\ UNCHANGED <<disk, instances, predictor_instance, lru_cache, predictor,
                 features, response, request, served, loadCalls, returned, sawUnloaded, lateLoaded>>

\* get_predictor, lines 14-15: `_predictor_instance = NutrientPredictor(model_dir)`
Construct(t) ==
  /\ pc[t] = "construct"
  /\ instances' = Append(instances, NewPredictor)
  /\ predictor_instance' = Len(instances) + 1
  /\ pc' = [pc EXCEPT ![t] = "load"]
  /\ UNCHANGED <<disk, lru_cache, predictor, features, response, request, served, loadCalls,
                 returned, sawUnloaded, lateLoaded>>

\* get_predictor, line 16: `_predictor_instance.load_models()` reads the global
\* again; load_models starts by emptying its dictionaries
BeginLoad(t) ==
  /\ pc[t] = "load"
  /\ predictor' = [predictor EXCEPT ![t] = predictor_instance]
  /\ instances' = [instances EXCEPT ![predictor_instance] = ResetDicts(@)]
  /\ loadCalls' = loadCalls + 1
  /\ pc' = [pc EXCEPT ![t] = "fill"]
  /\ UNCHANGED <<disk, predictor_instance, lru_cache, features, response, request, served,
                 returned, sawUnloaded, lateLoaded>>

\* load_models, lines 39-80: the files are read and models_loaded is set
FinishLoad(t) ==
  /\ pc[t] = "fill"
  /\ instances' = [instances EXCEPT ![predictor[t]] = FillDicts(@, disk)]
  /\ pc' = [pc EXCEPT ![t] = "return"]
  /\ UNCHANGED <<disk, predictor_instance, lru_cache, predictor, features,
                 response, request, served, loadCalls, returned, sawUnloaded, lateLoaded>>

\* get_predictor, line 18: `return _predictor_instance`; lru_cache keeps the
\* first result it is given
Return(t) ==
  /\ pc[t] = "return"
  /\ predictor' = [predictor EXCEPT ![t] = predictor_instance]
  /\ lru_cache' = IF lru_cache = None THEN predictor_instance ELSE lru_cache
  /\ returned' = returned \cup {predictor_instance}
  /\ pc' = [pc EXCEPT ![t] = "handler"]
  /\ UNCHANGED <<disk, instances, predictor_instance, features, response, request, served,
                 loadCalls, sawUnloaded, lateLoaded>>

\* ----------------------------------------------------------------- handlers
\* A handler answers; what the answer shows of models_loaded is recorded
Respond(t, resp) ==
  /\ response' = resp
  /\ served' = [instance |-> predictor[t],
                models_loaded |-> instances[predictor[t]].models_loaded]
  /\ sawUnloaded' = (sawUnloaded \/ ShowsUnloaded(resp))
  /\ lateLoaded' = (lateLoaded \/ (sawUnloaded /\ ShowsLoaded(resp)))
  /\ pc' = [pc EXCEPT ![t] = "idle"]
  /\ UNCHANGED <<disk, instances, predictor_instance, lru_cache, predictor,
                 loadCalls, returned>>

\* POST /api/predict, with the request and the model outputs drawn from ins
HandlePredict(t, ins) ==
  /\ pc[t] = "handler"
  /\ \E in \in ins :
       /\ Respond(t, PredictDeficiencies(instances[predictor[t]], in))
       /\ request' = in
       /\ features' = IF Unavailable(instances[predictor[t]]) THEN NoFrame
                      ELSE Predict(instances[predictor[t]], in).features

\* GET /api/features
HandleFeatures(t) ==
  /\ pc[t] = "handler"
  /\ Respond(t, GetFeatures(instances[predictor[t]]))
  /\ features' = NoFrame
  /\ request' = NoRequest

\* GET /health
HandleHealth(t) ==
  /\ pc[t] = "handler"
  /\ Respond(t, HealthCheck(instances[predictor[t]]))
  /\ features' = NoFrame
  /\ request' = NoRequest

\* predictor.predict(profile) called by code that holds the predictor and does
\* not look at models_loaded first
CallPredict(t, ins) ==
  /\ pc[t] = "handler"
  /\ \E in \in ins :
       LET r == Predict(instances[predictor[t]], in)
       IN /\ response' = [Answer("direct", 0, r.raised)
                           EXCEPT !.predict_called = TRUE,
                                  !.predictions = r.predictions,
                                  !.top_features = r.top_features]
          /\ features' = r.features
          /\ request' = in
  /\ served' = [instance |-> predictor[t],
                models_loaded |-> instances[predictor[t]].models_loaded]
  /\ pc' = [pc EXCEPT ![t] = "idle"]
  /\ UNCHANGED <<disk, instances, predictor_instance, lru_cache, predictor,
                 loadCalls, returned, sawUnloaded, lateLoaded>>

\* The predictor a request at its handler holds
Held(t) == instances[predictor[t]]

\* ---------------------------------------------------- the service, all threads
Next ==
  \E t \in Threads :
    \/ Request(t)
    \/ TestNone(t)
    \/ Construct(t)
    \/ BeginLoad(t)
    \/ FinishLoad(t)
    \/ Return(t)
    \/ HandlePredict(t, SvcInputs(Held(t)))
    \/ HandleFeatures(t)
    \/ HandleHealth(t)
    \/ CallPredict(t, SvcInputs(Held(t)))

Spec == Init /\ [][Next]_vars

\* ------------------------------------------- a warm process, one request at a time
\* The process after a first request has loaded the models from disk d and a
\* second request has been handed the cached predictor
Warm(d) ==
  /\ disk = d
  /\ instances = <<LoadModels(NewPredictor, d)>>
  /\ predictor_instance = 1
  /\ lru_cache = 1
  /\ pc = [t \in Threads |-> IF t = 1 THEN "handler" ELSE "idle"]
  /\ predictor = [t \in Threads |-> IF t = 1 THEN 1 ELSE None]
  /\ features = NoFrame
  /\ response = NoResponse
  /\ request = NoRequest
  /\ served = NotServed
  /\ loadCalls = 1
  /\ returned = {1}
  /\ sawUnloaded = FALSE
  /\ lateLoaded = FALSE

FullDisk(schema) == Disk(NutrientSet, NutrientSet, NutrientSet, TRUE, TRUE, schema)

\* base_proba = proba + gap, kept inside [0, 1]
Clip(p) == Max2(0, Min2(Scale, p))

\* Risk scoring.  GapInputs: every calibrated probability of the grid with every
\* gap to the base probability, for each nutrient (the three nutrients' values
\* are p, p shifted and p mirrored).  TripleInputs: every triple of calibrated
\* probabilities, the base model agreeing.
RequestWith(self, proba, base_proba) ==
  Inputs(ExampleProfile, proba, base_proba,
         [n \in NutrientSet |-> ZeroVector(Len(self.feature_names))])

Spread(p) ==
  [n \in NutrientSet |->
     IF n = "b12_deficient" THEN p
     ELSE IF n = "iron_deficient" THEN (p + 7) % (Scale + 1)
     ELSE Scale - p]

GapInputs(self) ==
  {RequestWith(self, Spread(p), [n \in NutrientSet |-> Clip(Spread(p)[n] + gap)])
     : p \in 0..Scale, gap \in (-Scale)..Scale}

TripleInputs(self) ==
  {RequestWith(self, proba, proba) : proba \in [NutrientSet -> 0..Scale]}

RiskInputs(self) == GapInputs(self) \cup TripleInputs(self)

\* With and without calibrated model files
InitPredict ==
  \E d \in {FullDisk(CoreSchema), Disk(NutrientSet, {}, {}, TRUE, TRUE, CoreSchema)} :
    Warm(d)

NextPredict == Request(1) \/ HandlePredict(1, RiskInputs(Held(1)))

SpecPredict == InitPredict /\ [][NextPredict]_vars

\* ------------------------------------------------------------ feature mapping runs
\* Every schema of at most MaxSchemaLen names, repeated names included
FeatSchemas == UNION {[1..n -> Range(AllCodes)] : n \in 0..MaxSchemaLen}

\* A profile the request schema would reject: no listed race, education or
\* marital status
UnlistedProfile ==
  Profile(50, "Male", "Pacific Islander", 70, 175, "Doctorate", "Engaged", "US")

FeatProfiles ==
  {ExampleProfile,
   Profile(70, "Male", "Mexican American", 95, 170, "Some college", "Widowed", "Other")}

ProfileInputs(self, profiles) ==
  {Inputs(profile, [n \in NutrientSet |-> Scale \div 2],
          [n \in NutrientSet |-> Scale \div 4],
          [n \in NutrientSet |-> ZeroVector(Len(self.feature_names))])
     : profile \in profiles}

FeatInputs(self) == ProfileInputs(self, FeatProfiles)
DirectInputs(self) == ProfileInputs(self, FeatProfiles \cup {UnlistedProfile})

InitFeat == \E schema \in FeatSchemas : Warm(FullDisk(schema))

NextFeat ==
  \/ Request(1)
  \/ HandlePredict(1, FeatInputs(Held(1)))
  \/ CallPredict(1, DirectInputs(Held(1)))

SpecFeat == InitFeat /\ [][NextFeat]_vars

\* --------------------------------------------------------------- attribution runs
\* The leading n codes, for every n up to MaxFeatures
AttrSchemas == {SubSeq(AllCodes, 1, n) : n \in 0..MaxFeatures}

ShapValues == {-1, 0, 1}

\* The first explainer's vector is any vector over ShapValues; the other two
\* are all zero, all one, or a ramp
PatternVectors(n) == {ZeroVector(n), [i \in 1..n |-> 1], [i \in 1..n |-> i - 3]}

AttrInputs(self) ==
  LET n == Len(self.feature_names)
  IN {Inputs(ExampleProfile, [k \in NutrientSet |-> Scale \div 2],
             [k \in NutrientSet |-> Scale \div 4],
             [k \in NutrientSet |->
                IF k = "b12_deficient" THEN v
                ELSE IF k = "iron_deficient" THEN w ELSE x])
        : v \in [1..n -> ShapValues], w \in PatternVectors(n), x \in PatternVectors(n)}

InitAttrib == \E schema \in AttrSchemas : Warm(FullDisk(schema))

NextAttrib == Request(1) \/ HandlePredict(1, AttrInputs(Held(1)))

SpecAttrib == InitAttrib /\ [][NextAttrib]_vars

\* ------------------------------------------------------------ recommendation runs
\* Calibrated probabilities of each risk category: 0, 0.15, 0.4 and 1 on the
\* grid of Scale = 20
RecProbas == {0, (3 * Scale) \div 20, (2 * Scale) \div 5, Scale}

\* Every accepted profile with every triple of those probabilities
RecInputs(self) ==
  {Inputs(profile, proba, proba,
          [n \in NutrientSet |-> ZeroVector(Len(self.feature_names))])
     : profile \in ValidProfiles, proba \in [NutrientSet -> RecProbas]}

InitRec == Warm(FullDisk(CoreSchema))

NextRec == Request(1) \/ HandlePredict(1, RecInputs(Held(1)))

SpecRec == InitRec /\ [][NextRec]_vars

\* ------------------------------------------------------------ risk scoring claims
\* The calibrated probability the request's models gave for nutrient i, in
\* units of 1/One: the base model's where no calibrated model file exists
GivenProba(i) ==
  IF Nutrients[i] \in disk.calibratedFiles
  THEN 100 * request.proba[Nutrients[i]]
  ELSE 100 * request.base_proba[Nutrients[i]]

\* C1: every prediction's risk_score is the calibrated probability p, and its
\* category is Low exactly when p < 0.15, Moderate exactly when
\* 0.15 <= p < 0.4, High exactly when p >= 0.4
C1_RiskCategoryThresholds ==
  \A i \in DOMAIN response.predictions :
    LET pred == response.predictions[i]
        p == pred.risk_score
    IN /\ p = GivenProba(i)
       /\ (pred.risk_category = "Low") <=> (100 * p < 15 * One)
       /\ (pred.risk_category = "Moderate") <=> (15 * One <= 100 * p /\ 100 * p < 40 * One)
       /\ (pred.risk_category = "High") <=> (40 * One <= 100 * p)

\* A response with a prediction at exactly 0.15, Moderate, and one at exactly
\* 0.4, High
C1_Witness ==
  /\ response.status = 200
  /\ \E i \in DOMAIN response.predictions :
       /\ 100 * response.predictions[i].risk_score = 15 * One
       /\ response.predictions[i].risk_category = "Moderate"
  /\ \E i \in DOMAIN response.predictions :
       /\ 100 * response.predictions[i].risk_score = 40 * One
       /\ response.predictions[i].risk_category = "High"

\* C2: every prediction has 0 <= confidence_lower <= risk_score <=
\* confidence_upper <= 1 and confidence = risk_score
C2_ConfidenceInterval ==
  \A i \in DOMAIN response.predictions :
    LET pred == response.predictions[i]
    IN /\ 0 <= pred.confidence_lower
       /\ pred.confidence_lower <= pred.risk_score
       /\ pred.risk_score <= pred.confidence_upper
       /\ pred.confidence_upper <= One
       /\ pred.confidence = pred.risk_score

\* A prediction whose calibrated and base probabilities differ and whose
\* interval is clamped at neither end
C2_Witness ==
  \E i \in DOMAIN response.predictions :
    LET pred == response.predictions[i]
    IN /\ request.proba[Nutrients[i]] # request.base_proba[Nutrients[i]]
       /\ 0 < pred.confidence_lower
       /\ pred.confidence_lower < pred.risk_score
       /\ pred.risk_score < pred.confidence_upper
       /\ pred.confidence_upper < One
       /\ pred.confidence_upper - pred.risk_score > 5 * Scale

\* C9: a successful POST /api/predict carries overall_health_score =
\* max(0, 1 - mean(risk_score)) over its three predictions, a value in [0, 1];
\* risk scores 0.1, 0.2, 0.3 give 0.8
C9_OverallHealthScore ==
  (response.endpoint = "predict" /\ response.status = 200) =>
    LET n == Len(response.predictions)
        total == SumSeq([i \in 1..n |-> response.predictions[i].risk_score])
        score == response.overall_health_score
    IN /\ n = 3
       /\ score[2] > 0
       /\ 0 <= score[1] /\ score[1] <= score[2]
       /\ score[1] * (n * One) = score[2] * Max2(0, n * One - total)
       /\ (\A i \in 1..n : 10 * response.predictions[i].risk_score = i * One)
            => 10 * score[1] = 8 * score[2]

\* The answer to a request whose risk scores are 0.1, 0.2 and 0.3
C9_Witness ==
  /\ response.endpoint = "predict" /\ response.status = 200
  /\ \A i \in 1..3 : 10 * response.predictions[i].risk_score = i * One
  /\ 10 * response.overall_health_score[1] = 8 * response.overall_health_score[2]

\* ------------------------------------------------------------ service claims
\* C3: an answer that came from a predictor whose models_loaded was False is
\* a 503 from POST /api/predict and GET /api/features, given without calling
\* predict or get_feature_info, and a RuntimeError from predict itself, raised
\* before a feature vector or a prediction exists
C3_UnloadedNeverPredicts ==
  (served.instance # None /\ ~served.models_loaded) =>
    /\ response.endpoint \in {"predict", "features"} =>
         /\ response.status = 503
         /\ ~response.predict_called
         /\ response.feature_info.total_features = -1
    /\ response.endpoint = "direct" => response.detail = "RuntimeError"
    /\ response.predictions = <<>> /\ response.top_features = <<>>
    /\ response.recommendations = <<>>
    /\ features = NoFrame

\* POST /api/predict answered 503 by a predictor whose load_models had failed
C3_Witness ==
  /\ served.instance # None /\ ~served.models_loaded
  /\ response.endpoint = "predict" /\ response.status = 503
  /\ \A t \in Threads : pc[t] \notin {"load", "fill"}
  /\ loadCalls > 0

\* C4 (as claimed): once a request has observed the predictor as not loaded,
\* no later request of the process observes it as loaded
C4_UnavailabilityPermanent == ~lateLoaded

\* C5 (as claimed): at most one NutrientPredictor is ever constructed,
\* load_models is entered at most once, and get_predictor returns one instance
C5_SingletonLoadedOnce ==
  /\ Len(instances) <= 1
  /\ loadCalls <= 1
  /\ Cardinality(returned) <= 1

\* C6 (as claimed): a predictor whose load_models has succeeded holds a scaler
\* for each of the three nutrients, the dedicated one where its file exists
\* and the shared one otherwise
C6_ScalerForEveryNutrient ==
  \A i \in 1..Len(instances) :
    (/\ instances[i].models_loaded
     /\ \A t \in Threads : ~(pc[t] = "fill" /\ predictor[t] = i)) =>
       /\ DOMAIN instances[i].scalers = NutrientSet
       /\ \A n \in NutrientSet :
            instances[i].scalers[n] =
              IF n \in disk.scalerFiles THEN "dedicated" ELSE "shared"

\* ------------------------------------------------------ feature mapping claims
\* predict got as far as building its feature vector
FeaturesBuilt == response.predict_called /\ response.detail # "RuntimeError"

\* C7: the table create_feature_vector returns has the schema as its column
\* sequence, name for name, and a value in every column
C7_ColumnsMatchSchema ==
  FeaturesBuilt =>
    LET schema == instances[served.instance].feature_names
    IN /\ features.columns = schema
       /\ DOMAIN features.row = 1..Len(schema)
       /\ \A i \in 1..Len(schema) :
            /\ features.row[i] # NoValue
            /\ Len(features.row[i]) = 2
            /\ features.row[i][2] > 0

\* A vector built for a schema of two different names, one of them matched by
\* no rule
C7_Witness ==
  /\ FeaturesBuilt
  /\ Len(features.columns) = 2
  /\ features.columns[1] # features.columns[2]
  /\ "INDFMPIR" \in Range(features.columns)

\* C8 (as claimed): for the profile of the request, every permutation of the
\* schema gives each feature name the value this schema gave it
C8_OrderIndependent ==
  FeaturesBuilt =>
    LET schema == instances[served.instance].feature_names
        n == Len(schema)
    IN \A f \in Permutations(1..n) :
         LET permuted == [i \in 1..n |-> schema[f[i]]]
             other == CreateFeatureVector(permuted, request.profile)
         IN \A i \in 1..n : \A j \in 1..n :
              (permuted[j] = features.columns[i]) => (other.row[j] = features.row[i])

\* ----------------------------------------------------------- attribution claims
\* The mean attribution of schema position i for the request, in units of 1/3
MeanImpact3(i) ==
  request.shap_values["b12_deficient"][i] + request.shap_values["iron_deficient"][i]
  + request.shap_values["diabetes_risk"][i]

\* C10: top_features has exactly min(5, n) entries, in non-increasing order of
\* absolute impact; each is a feature of the schema with the mean of the three
\* attribution vectors as its impact, and no feature left out has a larger
\* absolute impact than one returned
C10_TopFeatures ==
  (response.endpoint = "predict" /\ response.status = 200) =>
    LET schema == instances[served.instance].feature_names
        n == Len(schema)
        top == response.top_features
        chosen == {i \in 1..n : \E j \in DOMAIN top : top[j].feature = schema[i]}
    IN /\ Len(top) = (IF n < 5 THEN n ELSE 5)
       /\ \A j \in 1..(Len(top) - 1) : Abs(top[j].impact) >= Abs(top[j + 1].impact)
       /\ \A j \in DOMAIN top : \A k \in DOMAIN top :
            j # k => top[j].feature # top[k].feature
       /\ \A j \in DOMAIN top :
            \E i \in 1..n : /\ schema[i] = top[j].feature
                            /\ top[j].impact = MeanImpact3(i)
                            /\ top[j].value = features.row[i]
       /\ \A i \in (1..n) \ chosen : \A j \in DOMAIN top :
            Abs(MeanImpact3(i)) <= Abs(top[j].impact)

\* Six features, five returned with impacts of different sizes and both
\* signs, one with a non-zero impact left out
C10_Witness ==
  /\ response.endpoint = "predict" /\ response.status = 200
  /\ Len(instances[served.instance].feature_names) = 6
  /\ Len(response.top_features) = 5
  /\ Abs(response.top_features[1].impact) > Abs(response.top_features[5].impact)
  /\ \E j \in 1..5 : response.top_features[j].impact < 0
  /\ \E j \in 1..5 : response.top_features[j].impact > 0
  /\ \E j \in 1..5 : response.top_features[j].impact % 3 # 0
  /\ \E i \in 1..6 :
       /\ \A j \in 1..5 :
            response.top_features[j].feature # instances[served.instance].feature_names[i]
       /\ MeanImpact3(i) # 0

\* ------------------------------------------------------- recommendation claims
Answered == response.endpoint = "predict" /\ response.status = 200

\* The texts of the three nutrient rule groups
B12Texts == {"discuss B12 testing and supplementation", "increase B12-rich foods"}
IronTexts ==
  {"increase iron-rich foods", "discuss iron supplementation", "pair iron with vitamin C"}
VitdTexts == {"sunlight and vitamin D supplementation", "include vitamin D-rich foods"}
NutrientTexts == B12Texts \cup IronTexts \cup VitdTexts

IsB12(pred) == Contains("B12", pred.nutrient)
IsIron(pred) == Contains("Iron", pred.nutrient) \/ Contains("Anemia", pred.nutrient)
IsVitd(pred) == Contains("Vitamin D", pred.nutrient)
AtRisk(pred) == pred.risk_category \in {"Moderate", "High"}
PriorityOf(pred) == IF pred.risk_category = "High" THEN "High" ELSE "Medium"

\* The number of entries the rule table gives the i-th prediction of the answer
GroupSize(i) ==
  LET pred == response.predictions[i]
  IN IF ~AtRisk(pred) THEN 0
     ELSE IF IsB12(pred) THEN (IF pred.risk_category = "High" THEN 2 ELSE 1)
     ELSE IF IsIron(pred) THEN (IF request.profile.gender = "Female" THEN 3 ELSE 2)
     ELSE IF IsVitd(pred) THEN 2
     ELSE 0

\* The number of entries before the i-th prediction's group
GroupStart(i) == SumSeq([j \in 1..(i - 1) |-> GroupSize(j)])
NutrientEntries == GroupStart(Len(response.predictions) + 1)

Is(rec, category, priority, text) ==
  rec.category = category /\ rec.priority = priority /\ rec.recommendation = text

Owner(k) ==
  CHOOSE i \in 1..Len(response.predictions) :
    GroupStart(i) < k /\ k <= GroupStart(i) + GroupSize(i)

\* C12: the nutrient entries of an answer are exactly those of its Moderate and
\* High predictions that match a rule group, each at priority Medium for
\* Moderate and High for High except the vitamin C entry; a Low prediction and
\* the 'Diabetes Risk (Limited)' prediction, whatever its category, add none
C12_OnlyAtRiskGroups ==
  Answered =>
    LET recs == response.recommendations
        preds == response.predictions
    IN /\ \A i \in 1..Len(preds) :
            (~AtRisk(preds[i]) \/ preds[i].nutrient = "Diabetes Risk (Limited)")
              => GroupSize(i) = 0
       /\ Cardinality({k \in 1..Len(recs) : recs[k].recommendation \in NutrientTexts})
            = NutrientEntries
       /\ Len(recs) >= NutrientEntries
       /\ \A k \in 1..NutrientEntries :
            /\ recs[k].recommendation \in NutrientTexts
            /\ AtRisk(preds[Owner(k)])
            /\ recs[k].recommendation \in B12Texts <=> IsB12(preds[Owner(k)])
            /\ recs[k].recommendation \in IronTexts <=> IsIron(preds[Owner(k)])
            /\ recs[k].recommendation # "pair iron with vitamin C"
                 => recs[k].priority = PriorityOf(preds[Owner(k)])

\* B12 Low and the diabetes prediction High: the only nutrient entries are the
\* anemia prediction's, at Medium for Moderate
C12_Witness ==
  /\ Answered
  /\ response.predictions[1].risk_category = "Low"
  /\ response.predictions[2].risk_category = "Moderate"
  /\ response.predictions[3].nutrient = "Diabetes Risk (Limited)"
  /\ response.predictions[3].risk_category = "High"
  /\ NutrientEntries >= 2
  /\ Is(response.recommendations[1], "Dietary", "Medium", "increase iron-rich foods")
  /\ response.recommendations[NutrientEntries + 1].recommendation \notin NutrientTexts

\* The lifestyle group of the rule table for a profile, as <<category,
\* priority, text>> triples: BMI = weight / (height / 100)^2
LifestyleGroup(profile) ==
  (IF 100000 * profile.weight < 185 * profile.height * profile.height
   THEN <<<<"Lifestyle", "Medium", "weight-gain plan with a dietitian">>>>
   ELSE IF 10000 * profile.weight > 25 * profile.height * profile.height
   THEN <<<<"Lifestyle", "Medium", "physical activity and balanced diet">>>>
   ELSE <<>>)
  \o (IF profile.age > 65
      THEN <<<<"Medical", "Medium", "routine nutrient screening">>>>
      ELSE <<>>)
  \o <<<<"Lifestyle", "Low", "maintain a balanced diet">>>>

\* C13: the recommendations of an answer are the nutrient groups in the order
\* of its predictions followed by the lifestyle group (at most one BMI entry,
\* then the screening entry for age > 65, then the balanced-diet entry); the
\* list is never empty and ends with the Low Lifestyle balanced-diet entry
C13_InsertionOrder ==
  Answered =>
    LET recs == response.recommendations
        preds == response.predictions
        tail == LifestyleGroup(request.profile)
    IN /\ Len(recs) = NutrientEntries + Len(tail)
       /\ \A i \in 1..Len(preds) :
            \A k \in (GroupStart(i) + 1)..(GroupStart(i) + GroupSize(i)) :
              recs[k].recommendation \in
                (IF IsB12(preds[i]) THEN B12Texts
                 ELSE IF IsIron(preds[i]) THEN IronTexts ELSE VitdTexts)
       /\ \A k \in 1..Len(tail) :
            Is(recs[NutrientEntries + k], tail[k][1], tail[k][2], tail[k][3])
       /\ Len(recs) > 0
       /\ Is(recs[Len(recs)], "Lifestyle", "Low", "maintain a balanced diet")

\* Both nutrient groups, a BMI above 25 and an age above 65: the B12 entries,
\* then the anemia entries, then three lifestyle entries
C13_Witness ==
  /\ Answered
  /\ response.predictions[1].risk_category = "High"
  /\ response.predictions[2].risk_category = "Moderate"
  /\ request.profile.age > 65
  /\ Len(response.recommendations) = NutrientEntries + 3
  /\ NutrientEntries = 4
  /\ response.recommendations[1].recommendation \in B12Texts
  /\ response.recommendations[3].recommendation \in IronTexts
  /\ Is(response.recommendations[5], "Lifestyle", "Medium",
        "physical activity and balanced diet")
  /\ Is(response.recommendations[6], "Medical", "Medium", "routine nutrient screening")

\* ------------------------------------------------- categorical default claims
\* The feature names some branch of create_feature_vector matches
MatchedCodes == Range(AllCodes) \ {"INDFMPIR"}

\* C14: predict on a loaded predictor builds the feature vector without an
\* exception whatever the categorical values of the profile are; a race
\* outside the five listed gives RIDRETH3 = 6, an unlisted education gives
\* DMDEDUC2 = 3, an unlisted marital status gives DMDMARTL = 5, and a feature
\* name that no branch matches gives 0.0
C14_UnlistedDefaults ==
  (response.endpoint \in {"predict", "direct"} /\ served.models_loaded) =>
    LET profile == request.profile
        names == instances[served.instance].feature_names
    IN /\ response.detail = ""
       /\ features.columns = names
       /\ Len(features.row) = Len(names)
       /\ \A i \in 1..Len(names) :
            /\ (names[i] = "RIDRETH3" /\ profile.race \notin DOMAIN race_mapping)
                 => features.row[i] = <<6, 1>>
            /\ (names[i] = "DMDEDUC2" /\ profile.education \notin DOMAIN education_mapping)
                 => features.row[i] = <<3, 1>>
            /\ (names[i] = "DMDMARTL"
                  /\ profile.marital_status \notin DOMAIN marital_mapping)
                 => features.row[i] = <<5, 1>>
            /\ names[i] \notin MatchedCodes => features.row[i] = <<0, 1>>

\* predict called with a profile of unlisted race on a schema that also names
\* an unmatched feature
C14_Witness ==
  /\ response.endpoint = "direct" /\ response.detail = ""
  /\ request.profile.race = "Pacific Islander"
  /\ request.profile.race \notin DOMAIN race_mapping
  /\ features.columns = <<"RIDRETH3", "INDFMPIR">>
  /\ features.row = <<<<6, 1>>, <<0, 1>>>>

\* ------------------------------------------------------- request outcome claims
\* C15: POST /api/predict answered by a predictor whose models_loaded is True
\* is either a 200 with the three predictions and no error text, or a 500
\* whose detail names the exception that ended the prediction; it is a 503
\* only when models_loaded is False
C15_LoadedOutcomes ==
  response.endpoint = "predict" =>
    /\ served.models_loaded =>
         /\ response.status \in {200, 500}
         /\ response.predict_called
         /\ response.status = 200 =>
              /\ response.detail = ""
              /\ Len(response.predictions) = Len(Nutrients)
              /\ Len(response.recommendations) > 0
         /\ response.status = 500 =>
              /\ response.detail \in {"KeyError", "ValidationError",
                                      "ZeroDivisionError", "RuntimeError"}
              /\ response.predictions = <<>> /\ response.recommendations = <<>>
    /\ response.status = 503 => ~served.models_loaded

\* A loaded predictor that lacks an artifact: predict raises KeyError and the
\* request is answered 500
C15_Witness ==
  /\ response.endpoint = "predict" /\ response.status = 500
  /\ response.detail = "KeyError"
  /\ served.models_loaded

====
